---- MODULE Spec2Model ----
(***************************************************************************)
(* Tocsic: table-of-contents generator for Markdown (src/src/tocsic.py).   *)
(* Text is modelled character by character: a string is a sequence of      *)
(* one-character strings, a file is the sequence of its characters, and    *)
(* the lines of a file are what iterating over the file yields.            *)
(***************************************************************************)
EXTENDS Integers, Sequences, FiniteSets, TLC

\* Longest input document, in lines, of the first run.
MaxLines == 3

\* Number of times the tool is run in a row (each later run reads the
\* previous run's output file).
MaxRuns == 2

\* Longest document, in lines, of the runs that the command line decides.
MaxShort == 1

\* Longest header title, in characters, given to header_to_link on its own.
MaxTitle == 3

-----------------------------------------------------------------------------
(* Characters and the str methods the program uses *)

UpperChars == <<"A","B","C","D","E","F","G","H","I","J","K","L","M",
                "N","O","P","Q","R","S","T","U","V","W","X","Y","Z">>

LowerChars == <<"a","b","c","d","e","f","g","h","i","j","k","l","m",
                "n","o","p","q","r","s","t","u","v","w","x","y","z">>

DigitChars == <<"0","1","2","3","4","5","6","7","8","9">>

Range(s) == {s[i] : i \in DOMAIN s}

\* str.strip() with no argument and the regex class \s
Whitespace == {" ", "\t", "\n", "\r", "\f"}

\* str.isalnum on one character
IsAlnum(c) == c \in Range(UpperChars) \cup Range(LowerChars) \cup Range(DigitChars)

\* the regex class [\w-]
WordOrDashChars ==
    Range(UpperChars) \cup Range(LowerChars) \cup Range(DigitChars) \cup {"_", "-"}

\* str.lower on one character
LowerChar(c) ==
    IF c \in Range(UpperChars)
    THEN LowerChars[CHOOSE i \in DOMAIN UpperChars : UpperChars[i] = c]
    ELSE c

\* str.lower
Lower(s) == [i \in DOMAIN s |-> LowerChar(s[i])]

\* str.startswith
StartsWith(s, p) == Len(s) >= Len(p) /\ SubSeq(s, 1, Len(p)) = p

\* s with its leading and trailing characters of the set cs removed
StripChars(s, cs) ==
    LET keep == {i \in DOMAIN s : s[i] \notin cs}
    IN  IF keep = {} THEN <<>>
        ELSE SubSeq(s, CHOOSE i \in keep : \A j \in keep : i <= j,
                       CHOOSE i \in keep : \A j \in keep : i >= j)

\* str.strip()
Strip(s) == StripChars(s, Whitespace)

\* filter(pred, s) joined back into a string, for the predicate of line 163
FilterAlnumUnderscore(s) == SelectSeq(s, LAMBDA c : IsAlnum(c) \/ c = "_")

\* str(n) for n >= 0
RECURSIVE Str(_)
Str(n) == IF n < 10 THEN <<DigitChars[n + 1]>>
          ELSE Str(n \div 10) \o <<DigitChars[(n % 10) + 1]>>

\* ''.join(parts)
RECURSIVE Join(_)
Join(parts) == IF parts = <<>> THEN <<>> ELSE Head(parts) \o Join(Tail(parts))

\* The lines iterating over a text file yields: each ends with its "\n",
\* except a last line the file does not terminate.
RECURSIVE SplitLines(_)
SplitLines(text) ==
    IF text = <<>> THEN <<>>
    ELSE LET nls == {i \in DOMAIN text : text[i] = "\n"}
         IN  IF nls = {} THEN <<text>>
             ELSE LET e == CHOOSE i \in nls : \A j \in nls : i <= j
                  IN  <<SubSeq(text, 1, e)>> \o SplitLines(SubSeq(text, e + 1, Len(text)))

-----------------------------------------------------------------------------
(* Regular expressions *)

\* The class [ -/] of to_underscore_regex: the characters from " " to "/".
ToUnderscoreChars ==
    {" ", "!", "\"", "#", "$", "%", "&", "'", "(", ")", "*", "+", ",", "-", ".", "/"}

\* s without its longest prefix of characters of cs
RECURSIVE DropWhileIn(_, _)
DropWhileIn(s, cs) ==
    IF s # <<>> /\ Head(s) \in cs THEN DropWhileIn(Tail(s), cs) ELSE s

\* re.sub(to_underscore_regex, '_', s): every maximal run of the class
\* becomes one underscore.
RECURSIVE SubToUnderscore(_)
SubToUnderscore(s) ==
    IF s = <<>> THEN <<>>
    ELSE IF Head(s) \in ToUnderscoreChars
         THEN <<"_">> \o SubToUnderscore(DropWhileIn(Tail(s), ToUnderscoreChars))
         ELSE <<Head(s)>> \o SubToUnderscore(Tail(s))

\* The least index >= from of s whose character satisfies: not in cs;
\* Len(s) + 1 when there is none.
FirstNotIn(s, from, cs) ==
    LET ok == {i \in from..Len(s) : s[i] \notin cs}
    IN  IF ok = {} THEN Len(s) + 1 ELSE CHOOSE i \in ok : \A j \in ok : i <= j

\* head_regex (#+)\s*(\S+(?:\s+\S+)*) matched at position s of line, with
\* the backtracking of (#+): the longest run of "#" is tried first, then
\* shorter ones, and the first that leaves a non-space character for \S+
\* wins. Group 2 then runs to the last non-space character of the line.
HeadMatchAt(line, s) ==
    LET k  == FirstNotIn(line, s, {"#"}) - s
        js == {j \in 1..k : FirstNotIn(line, s + j, Whitespace) <= Len(line)}
    IN  IF js = {} THEN [ok |-> FALSE, hashes |-> 0, name |-> <<>>]
        ELSE LET j == CHOOSE x \in js : \A y \in js : x >= y
                 p == FirstNotIn(line, s + j, Whitespace)
                 q == CHOOSE i \in p..Len(line) :
                         /\ line[i] \notin Whitespace
                         /\ \A i2 \in (i + 1)..Len(line) : line[i2] \in Whitespace
             IN  [ok |-> TRUE, hashes |-> j, name |-> SubSeq(line, p, q)]

\* re.search(head_regex, line): the leftmost match
HeadSearch(line) ==
    LET ss == {s \in DOMAIN line : HeadMatchAt(line, s).ok}
    IN  IF ss = {} THEN [ok |-> FALSE, hashes |-> 0, name |-> <<>>]
        ELSE HeadMatchAt(line, CHOOSE s \in ss : \A t \in ss : s <= t)

\* keyword_regex \s*<a +id="([\w-]+)"></a> matched at position s of line
KeywordMatchAt(line, s) ==
    LET a  == FirstNotIn(line, s, Whitespace)
        b  == FirstNotIn(line, a + 2, {" "})
        c  == FirstNotIn(line, b + 4, WordOrDashChars)
        no == [ok |-> FALSE, id |-> <<>>]
    IN  IF /\ a + 1 <= Len(line)
           /\ SubSeq(line, a, a + 1) = <<"<", "a">>
           /\ b > a + 2
           /\ b + 3 <= Len(line)
           /\ SubSeq(line, b, b + 3) = <<"i", "d", "=", "\"">>
           /\ c > b + 4
           /\ c + 5 <= Len(line)
           /\ SubSeq(line, c, c + 5) = <<"\"", ">", "<", "/", "a", ">">>
        THEN [ok |-> TRUE, id |-> SubSeq(line, b + 4, c - 1)]
        ELSE no

\* re.search(keyword_regex, line): the leftmost match
KeywordSearch(line) ==
    LET ss == {s \in DOMAIN line : KeywordMatchAt(line, s).ok}
    IN  IF ss = {} THEN [ok |-> FALSE, id |-> <<>>]
        ELSE KeywordMatchAt(line, CHOOSE s \in ss : \A t \in ss : s <= t)

-----------------------------------------------------------------------------
(* Values of the program *)

\* None and the empty string: the program only ever tests them for truth.
None == <<>>

\* The grave accent, U+0060, which a string of this language cannot hold.
Backtick == "GRAVE"

\* The fence marker, three grave accents.
Fence == <<Backtick, Backtick, Backtick>>

\* Tocsic.toc_marker
toc_marker == <<"#"," ","T","a","b","l","e"," ","o","f"," ",
                "C","o","n","t","e","n","t","s">>

\* '<a id="{}"></a>\n'.format(link)
AnchorLine(link) ==
    <<"<", "a", " ", "i", "d", "=", "\"">> \o link \o <<"\"", ">", "<", "/", "a", ">", "\n">>

\* '    ' * level
RECURSIVE Indent(_)
Indent(level) == IF level <= 0 THEN <<>> ELSE <<" ", " ", " ", " ">> \o Indent(level - 1)

\* '{}1. [{}](#{})\n'.format('    ' * toc_entry[0], toc_entry[1], toc_entry[2])
EntryLine(toc_entry) ==
    Indent(toc_entry[1]) \o <<"1", ".", " ", "[">> \o toc_entry[2]
        \o <<"]", "(", "#">> \o toc_entry[3] \o <<")", "\n">>

-----------------------------------------------------------------------------
(* Anchor names *)

\* The candidate link of a header: lines 162-163 of header_to_link.
LinkCandidate(header) ==
    FilterAlnumUnderscore(StripChars(SubToUnderscore(Lower(header)), {"_"}))

\* dict.get(key, 0)
DictGet(dict, key) == IF key \in DOMAIN dict THEN dict[key] ELSE 0

\* dict[key] = value
DictSet(dict, key, value) == (key :> value) @@ dict

\* header_to_link counting from one: the first repeat gets "_2".
header_to_link_count_after(header, dict) ==
    LET link       == LinkCandidate(header)
        header_cnt == DictGet(dict, link)
    IN  IF header_cnt = 0
        THEN [link |-> link, header_dict |-> DictSet(dict, link, 1)]
        ELSE [link |-> link \o <<"_">> \o Str(header_cnt + 1),
              header_dict |-> DictSet(dict, link, dict[link] + 1)]

\* Tocsic.header_to_link: the link returned and the header_dict it leaves.
header_to_link(header, dict) ==
    LET link       == LinkCandidate(header)
        header_cnt == DictGet(dict, link)
    IN  IF header_cnt = 0
        THEN [link |-> link, header_dict |-> DictSet(dict, link, 1)]
        ELSE [link |-> link \o <<"_">> \o Str(header_cnt),
              header_dict |-> DictSet(dict, link, dict[link] + 1)]

\* Tocsic.make_toc_entry: whether it raises, and the toc_info and
\* header_dict it leaves. keyword_line is None or the pending anchor line.
make_toc_entry(line, keyword_line, info, dict) ==
    LET search_res == HeadSearch(line)
        level      == search_res.hashes - 1
        header_name == search_res.name
        kw         == KeywordSearch(keyword_line)
        named      == header_to_link(header_name, dict)
    IN  IF ~search_res.ok
        THEN [raised |-> TRUE, toc_info |-> info, header_dict |-> dict]
        ELSE IF keyword_line # None
             THEN [raised |-> FALSE,
                   toc_info |-> Append(info, <<level, header_name,
                                               IF kw.ok THEN kw.id ELSE <<>> >>),
                   header_dict |-> dict]
             ELSE [raised |-> FALSE,
                   toc_info |-> Append(info, <<level, header_name, named.link>>),
                   header_dict |-> named.header_dict]

-----------------------------------------------------------------------------
(* FileReader *)

\* FileReader.__init__
FileReader == [repeat |-> FALSE, last_line |-> None, pos |-> 0, line_num |-> 0]

\* FileReader.back
back(fr) == [fr EXCEPT !.repeat = TRUE]
\* FileReader.__next__ with line_num counting the replayed line as well
FRNextCountsReplay(fr, lines) ==
    IF fr.repeat
    THEN [stop |-> FALSE, line |-> fr.last_line,
          fr |-> [fr EXCEPT !.repeat = FALSE, !.line_num = fr.line_num + 1]]
    ELSE IF fr.pos >= Len(lines)
         THEN [stop |-> TRUE, line |-> None, fr |-> fr]
         ELSE [stop |-> FALSE, line |-> lines[fr.pos + 1],
               fr |-> [fr EXCEPT !.last_line = lines[fr.pos + 1],
                                 !.pos = fr.pos + 1,
                                 !.line_num = fr.line_num + 1]]

\* FileReader.__next__ over the lines of the open file: stop is
\* StopIteration; pos counts the lines taken from the file's own iterator.
FRNext(fr, lines) ==
    IF fr.repeat
    THEN [stop |-> FALSE, line |-> fr.last_line, fr |-> [fr EXCEPT !.repeat = FALSE]]
    ELSE IF fr.pos >= Len(lines)
         THEN [stop |-> TRUE, line |-> None, fr |-> fr]
         ELSE [stop |-> FALSE, line |-> lines[fr.pos + 1],
               fr |-> [fr EXCEPT !.last_line = lines[fr.pos + 1],
                                 !.pos = fr.pos + 1,
                                 !.line_num = fr.line_num + 1]]

\* The loop of process_start (blank = TRUE: read while the stripped line is
\* empty) and of process_toc (blank = FALSE: read while it is not).
RECURSIVE ReadWhile(_, _, _)
ReadWhile(fr, lines, blank) ==
    LET r == FRNext(fr, lines)
    IN  IF r.stop THEN r
        ELSE IF (Strip(r.line) = <<>>) = blank THEN ReadWhile(r.fr, lines, blank)
        ELSE r

\* process_start without line 100: the line it peeked at is not pushed back.
process_start_no_back(fr, lines) ==
    LET r == ReadWhile(fr, lines, TRUE)
    IN  IF r.stop THEN [ret |-> FALSE, fr |-> r.fr]
        ELSE [ret |-> Strip(r.line) = toc_marker, fr |-> r.fr]

\* Tocsic.process_start: the value returned (None counts as False) and the
\* reader it leaves.
process_start(fr, lines) ==
    LET r == ReadWhile(fr, lines, TRUE)
    IN  IF r.stop THEN [ret |-> FALSE, fr |-> r.fr]
        ELSE [ret |-> Strip(r.line) = toc_marker, fr |-> back(r.fr)]

\* process_toc that reads nothing: the old TOC block is left to the scan.
process_toc_reads_nothing(fr, lines) == fr

\* Tocsic.process_toc: the reader it leaves.
process_toc(fr, lines) ==
    LET r == ReadWhile(fr, lines, FALSE)
    IN  IF r.stop THEN r.fr ELSE back(r.fr)

-----------------------------------------------------------------------------
(* Command line *)

\* filename[::-1]
RECURSIVE Reverse(_)
Reverse(s) == IF s = <<>> THEN <<>> ELSE Append(Reverse(Tail(s)), Head(s))

\* Tocsic.make_output_name
make_output_name(filename) ==
    IF "." \notin Range(filename) THEN filename \o <<"_", "t", "o", "c">>
    ELSE LET rev == Reverse(filename)
             d   == CHOOSE i \in DOMAIN rev : rev[i] = "." /\ \A j \in 1..(i - 1) : rev[j] # "."
         IN  Reverse(SubSeq(rev, 1, d - 1) \o <<".", "c", "o", "t", "_">>
                        \o SubSeq(rev, d + 1, Len(rev)))

\* is_user_sure: answers are the lines typed, the last of them a valid one.
RECURSIVE is_user_sure(_)
is_user_sure(answers) ==
    IF Lower(Head(answers)) \in {<<"y">>, <<"y", "e", "s">>} THEN TRUE
    ELSE IF Lower(Head(answers)) \in {<<"n">>, <<"n", "o">>} THEN FALSE
    ELSE is_user_sure(Tail(answers))

-----------------------------------------------------------------------------
(* Inputs of the first run *)

LBlank    == <<"\n">>
LMarker   == toc_marker \o <<"\n">>
LSetup    == <<"#", " ", "S", "e", "t", "u", "p", "\n">>
LSetup1   == <<"#", " ", "S", "e", "t", "u", "p", " ", "1", "\n">>
LHashes   == <<"#", "#", "#", "#", "\n">>
LHash     == <<"#", "\n">>
LTag      == AnchorLine(<<"x">>)
LTagY     == AnchorLine(<<"y">>)
LLink     == <<"<", "a", " ", "h", ">", "\n">>
LFence    == Fence \o <<"\n">>
LText     == <<"t", "\n">>

LineSet == {LBlank, LMarker, LSetup, LSetup1, LHashes, LHash, LTag,
            LLink, LFence, LText}

\* The lines of the documents about anchor tags with different ids.
TagLineSet == {LTag, LTagY, LBlank, LSetup, LText}

\* The documents: every sequence of at most MaxLines lines of LineSet, and
\* every sequence of at most MaxLines lines of TagLineSet.
Docs ==
    UNION {[1..n -> LineSet] \cup [1..n -> TagLineSet] : n \in 0..MaxLines}

InPath      == <<"a", ".", "m", "d">>
DirPath     == <<"d">>
MissingPath == <<"m">>

\* What the user may type at the overwrite question.
AnswerInputs == {<<(<<"y">>)>>, <<(<<"Y", "e", "s">>)>>, <<(<<"n">>)>>, <<(<<"N", "O">>)>>,
                 <<(<<"x">>), (<<"y">>)>>, <<(<<>>), (<<"n", "o">>)>>}

-----------------------------------------------------------------------------
(* State *)

VARIABLES
    fs,            \* the file system: path -> [kind, readable, content]
    args,          \* sys.argv as parsed: [filename, output]
    run,           \* which run of the tool this is
    pc,            \* where the run is
    error,         \* the exception that ended the run
    input_file, output_file, is_overwrite, is_valid,   \* Tocsic fields
    toc_info, toc, body, header_dict, file,            \* Tocsic fields
    line_gen,      \* add_toc's FileReader
    body_state, link_line,                             \* process_body's locals
    answered,      \* history: the user's answer to the overwrite question
    toc_src,       \* history: per TOC entry, the line_num and keyword_line
                   \* make_toc_entry was called with, and where in body the
                   \* header line went
    written        \* history: generate_md opened the output file in this run

object == <<input_file, output_file, is_overwrite, is_valid,
            toc_info, toc, body, header_dict, file>>
scan   == <<line_gen, body_state, link_line>>
vars   == <<fs, args, run, pc, error, object, scan, answered, toc_src, written>>

NoError == [kind |-> "none", line_num |-> 0]

\* body is kept as the sequence of the strings appended to it.
BodyText == Join(body)

\* The lines of a file of the file system
FileLines(path) == SplitLines(fs[path].content)

Init ==
    /\ \E doc \in Docs, r \in BOOLEAN :
          fs = (InPath :> [kind |-> "file", readable |-> r, content |-> Join(doc)])
               @@ (DirPath :> [kind |-> "dir", readable |-> TRUE, content |-> <<>>])
    /\ args \in [filename : {InPath, DirPath, MissingPath}, output : {None, InPath}]
    \* The runs whose outcome the command line and the file's permissions
    \* decide are tried on the documents of at most MaxShort lines.
    /\ (args # [filename |-> InPath, output |-> None] \/ ~fs[InPath].readable)
          => Len(SplitLines(fs[InPath].content)) <= MaxShort
    /\ run = 1
    /\ pc = "main"
    /\ error = NoError
    /\ input_file = None /\ output_file = None
    /\ is_overwrite = FALSE /\ is_valid = FALSE
    /\ toc_info = <<>> /\ toc = <<>> /\ body = <<>>
    /\ header_dict = <<>> /\ file = <<>>
    /\ line_gen = FileReader /\ body_state = "BODY" /\ link_line = None
    /\ answered = "none" /\ toc_src = <<>> /\ written = FALSE

-----------------------------------------------------------------------------
(* Construction *)

\* Tocsic.check_arguments with the user typing answers: whether it raises,
\* the fields it sets and whether it set is_valid to False.
check_arguments(a, files, answers) ==
    LET md_path == a.filename
        same    == a.output # None /\ a.output = md_path
        sure    == is_user_sure(answers)
    IN  IF md_path \notin DOMAIN files \/ files[md_path].kind # "file"
        THEN [raised |-> TRUE, input_file |-> None, output_file |-> None,
              is_overwrite |-> FALSE, invalid |-> FALSE, asked |-> FALSE]
        ELSE [raised |-> FALSE,
              input_file |-> md_path,
              output_file |-> IF a.output # None THEN a.output
                              ELSE make_output_name(md_path),
              is_overwrite |-> same,
              invalid |-> same /\ ~sure,
              asked |-> same]

\* Tocsic.__init__ (md = Tocsic()): check_arguments, the fields, the open of
\* the input file, and is_valid = True as its last statement.
Construct ==
    /\ pc = "main"
    /\ \E answers \in (IF args.output # None /\ args.output = args.filename
                       THEN AnswerInputs ELSE {<<>>}) :
         LET c == check_arguments(args, fs, answers)
         IN  /\ answered' = IF c.asked
                            THEN (IF is_user_sure(answers) THEN "yes" ELSE "no")
                            ELSE "none"
             /\ input_file' = c.input_file
             /\ output_file' = c.output_file
             /\ is_overwrite' = c.is_overwrite
             /\ IF c.raised
                THEN /\ pc' = "raised"
                     /\ error' = [kind |-> "not a file", line_num |-> 0]
                     /\ UNCHANGED <<is_valid, toc, file>>
                ELSE /\ toc' = toc_marker \o <<"\n">>
                     /\ IF ~fs[c.input_file].readable
                        THEN /\ pc' = "raised"
                             /\ error' = [kind |-> "failed to open", line_num |-> 0]
                             /\ is_valid' = ~c.invalid
                             /\ UNCHANGED file
                        ELSE /\ pc' = "add_toc"
                             /\ file' = FileLines(c.input_file)
                             /\ is_valid' = TRUE
                             /\ UNCHANGED error
    /\ UNCHANGED <<fs, args, run, toc_info, body, header_dict, scan, toc_src, written>>

-----------------------------------------------------------------------------
(* add_toc *)

\* add_toc, lines 80-83: the is_valid test and the FileReader.
AddToc ==
    /\ pc = "add_toc"
    /\ IF ~is_valid
       THEN pc' = "exit" /\ UNCHANGED line_gen
       ELSE pc' = "process_start" /\ line_gen' = FileReader
    /\ UNCHANGED <<fs, args, run, error, object, body_state, link_line,
                   answered, toc_src, written>>

\* add_toc, line 84: process_start and the branch on what it returns.
ProcessStart ==
    /\ pc = "process_start"
    /\ LET r == process_start(line_gen, file)
       IN  /\ line_gen' = r.fr
           /\ pc' = IF r.ret THEN "process_toc" ELSE "process_body"
    /\ body_state' = "BODY"
    /\ link_line' = None
    /\ UNCHANGED <<fs, args, run, error, object, answered, toc_src, written>>

\* add_toc, line 85: process_toc.
ProcessToc ==
    /\ pc = "process_toc"
    /\ line_gen' = process_toc(line_gen, file)
    /\ pc' = "process_body"
    /\ UNCHANGED <<fs, args, run, error, object, body_state, link_line,
                   answered, toc_src, written>>
\* The header branch with the anchor line written after the header line
HeaderLineAnchorAfter(line, keyword_line) ==
    LET e == make_toc_entry(line, keyword_line, toc_info, header_dict)
    IN  IF e.raised
        THEN /\ pc' = "raised"
             /\ error' = [kind |-> "not a header", line_num |-> line_gen'.line_num]
             /\ UNCHANGED <<toc_info, header_dict, body, toc_src>>
        ELSE /\ toc_info' = e.toc_info
             /\ header_dict' = e.header_dict
             /\ body' = body \o <<line, AnchorLine(e.toc_info[Len(e.toc_info)][3])>>
             /\ toc_src' = Append(toc_src, [line_num |-> line_gen'.line_num,
                                            keyword_line |-> keyword_line,
                                            at |-> Len(body) + 1])
             /\ UNCHANGED <<pc, error>>

\* What a header line does to the scan (lines 132-134 and 150-152, 155):
\* make_toc_entry, then the anchor line and the header line appended to
\* body; or the exception of make_toc_entry.
HeaderLine(line, keyword_line) ==
    LET e == make_toc_entry(line, keyword_line, toc_info, header_dict)
    IN  IF e.raised
        THEN /\ pc' = "raised"
             /\ error' = [kind |-> "not a header", line_num |-> line_gen'.line_num]
             /\ UNCHANGED <<toc_info, header_dict, body, toc_src>>
        ELSE /\ toc_info' = e.toc_info
             /\ header_dict' = e.header_dict
             /\ body' = body \o <<AnchorLine(e.toc_info[Len(e.toc_info)][3]), line>>
             /\ toc_src' = Append(toc_src, [line_num |-> line_gen'.line_num,
                                            keyword_line |-> keyword_line,
                                            at |-> Len(body) + 2])
             /\ UNCHANGED <<pc, error>>

\* process_body, one turn of the loop in state BODY (lines 125-139).
BodyLine ==
    /\ pc = "process_body"
    /\ body_state = "BODY"
    /\ LET r == FRNext(line_gen, file)
       IN  /\ ~r.stop
           /\ line_gen' = r.fr
           /\ IF StartsWith(r.line, <<"<", "a">>)
              THEN /\ link_line' = r.line
                   /\ body_state' = "FOUND_LINK"
                   /\ UNCHANGED <<pc, error, toc_info, header_dict, body, toc_src>>
              ELSE IF StartsWith(r.line, <<"#">>)
              THEN /\ HeaderLine(r.line, None)
                   /\ UNCHANGED <<link_line, body_state>>
              ELSE IF StartsWith(r.line, Fence)
              THEN /\ body_state' = "IN_CODE_BLOCK"
                   /\ body' = Append(body, r.line)
                   /\ UNCHANGED <<pc, error, toc_info, header_dict, link_line, toc_src>>
              ELSE /\ body' = Append(body, r.line)
                   /\ UNCHANGED <<pc, error, toc_info, header_dict, link_line,
                                  body_state, toc_src>>
    /\ UNCHANGED <<fs, args, run, input_file, output_file, is_overwrite, is_valid,
                   toc, file, answered, written>>

\* The IN_CODE_BLOCK turn that leaves the closing fence out of body
CodeBlockLineDropsFence ==
    /\ pc = "process_body"
    /\ body_state = "IN_CODE_BLOCK"
    /\ LET r == FRNext(line_gen, file)
       IN  /\ ~r.stop
           /\ line_gen' = r.fr
           /\ body_state' = IF StartsWith(r.line, Fence) THEN "BODY" ELSE body_state
           /\ body' = IF StartsWith(r.line, Fence) THEN body ELSE Append(body, r.line)
    /\ UNCHANGED <<fs, args, run, pc, error, input_file, output_file, is_overwrite,
                   is_valid, toc_info, toc, header_dict, file, link_line,
                   answered, toc_src, written>>

\* process_body, one turn of the loop in state IN_CODE_BLOCK (lines 140-144).
CodeBlockLine ==
    /\ pc = "process_body"
    /\ body_state = "IN_CODE_BLOCK"
    /\ LET r == FRNext(line_gen, file)
       IN  /\ ~r.stop
           /\ line_gen' = r.fr
           /\ body_state' = IF StartsWith(r.line, Fence) THEN "BODY" ELSE body_state
           /\ body' = Append(body, r.line)
    /\ UNCHANGED <<fs, args, run, pc, error, input_file, output_file, is_overwrite,
                   is_valid, toc_info, toc, header_dict, file, link_line,
                   answered, toc_src, written>>
\* The FOUND_LINK turn that keeps the first anchor-tag line it was given
FoundLinkLineKeepsFirst ==
    /\ pc = "process_body"
    /\ body_state = "FOUND_LINK"
    /\ LET r == FRNext(line_gen, file)
       IN  /\ ~r.stop
           /\ line_gen' = r.fr
           /\ IF StartsWith(r.line, <<"#">>)
              THEN /\ body_state' = "BODY"
                   /\ HeaderLine(r.line, link_line)
                   /\ UNCHANGED link_line
              ELSE /\ body' = Append(body, r.line)
                   /\ UNCHANGED <<pc, error, toc_info, header_dict, link_line,
                                  body_state, toc_src>>
    /\ UNCHANGED <<fs, args, run, input_file, output_file, is_overwrite, is_valid,
                   toc, file, answered, written>>

\* process_body, one turn of the loop in state FOUND_LINK (lines 145-155).
FoundLinkLine ==
    /\ pc = "process_body"
    /\ body_state = "FOUND_LINK"
    /\ LET r == FRNext(line_gen, file)
       IN  /\ ~r.stop
           /\ line_gen' = r.fr
           /\ IF StartsWith(r.line, <<"<", "a">>)
              THEN /\ link_line' = r.line
                   /\ body' = Append(body, r.line)
                   /\ UNCHANGED <<pc, error, toc_info, header_dict, body_state, toc_src>>
              ELSE IF StartsWith(r.line, <<"#">>)
              THEN /\ body_state' = "BODY"
                   /\ HeaderLine(r.line, link_line)
                   /\ UNCHANGED link_line
              ELSE \* a line that is not blank also prints the ERROR message
                   /\ body' = Append(body, r.line)
                   /\ UNCHANGED <<pc, error, toc_info, header_dict, link_line,
                                  body_state, toc_src>>
    /\ UNCHANGED <<fs, args, run, input_file, output_file, is_overwrite, is_valid,
                   toc, file, answered, written>>

\* process_body, lines 156-157: StopIteration ends the loop; add_toc then
\* closes the file (line 87).
BodyEnd ==
    /\ pc = "process_body"
    /\ FRNext(line_gen, file).stop
    /\ pc' = "make_toc"
    /\ UNCHANGED <<fs, args, run, error, object, scan, answered, toc_src, written>>

\* Tocsic.make_toc
MakeToc ==
    /\ pc = "make_toc"
    /\ toc' = toc \o Join([i \in DOMAIN toc_info |-> EntryLine(toc_info[i])])
    /\ pc' = "generate_md"
    /\ UNCHANGED <<fs, args, run, error, input_file, output_file, is_overwrite,
                   is_valid, toc_info, body, header_dict, file, scan,
                   answered, toc_src, written>>

\* generate_md run whenever add_toc is left, by return or by exception.
GenerateMdOnExit ==
    /\ pc \in {"generate_md", "raised"}
    /\ ~written
    /\ output_file # None
    /\ fs' = (output_file :> [kind |-> "file", readable |-> TRUE,
                              content |-> toc \o <<"\n">> \o BodyText]) @@ fs
    /\ written' = TRUE
    /\ pc' = IF pc = "raised" THEN pc ELSE "exit"
    /\ UNCHANGED <<args, run, error, object, scan, answered, toc_src>>

\* Tocsic.generate_md
GenerateMd ==
    /\ pc = "generate_md"
    /\ fs' = (output_file :> [kind |-> "file", readable |-> TRUE,
                              content |-> toc \o <<"\n">> \o BodyText]) @@ fs
    /\ written' = TRUE
    /\ pc' = "exit"
    /\ UNCHANGED <<args, run, error, object, scan, answered, toc_src>>

\* The tool run again, on the file the run before wrote (lines 242-244 in a
\* new process: every field starts afresh).
Rerun ==
    /\ pc = "exit"
    /\ written
    /\ run < MaxRuns
    /\ run' = run + 1
    /\ args' = [filename |-> output_file, output |-> None]
    /\ pc' = "main"
    /\ input_file' = None /\ output_file' = None
    /\ is_overwrite' = FALSE /\ is_valid' = FALSE
    /\ toc_info' = <<>> /\ toc' = <<>> /\ body' = <<>>
    /\ header_dict' = <<>> /\ file' = <<>>
    /\ line_gen' = FileReader /\ body_state' = "BODY" /\ link_line' = None
    /\ answered' = "none" /\ toc_src' = <<>> /\ written' = FALSE
    /\ UNCHANGED <<fs, error>>

Next ==
    \/ Construct
    \/ AddToc
    \/ ProcessStart
    \/ ProcessToc
    \/ BodyLine
    \/ CodeBlockLine
    \/ FoundLinkLine
    \/ BodyEnd
    \/ MakeToc
    \/ GenerateMd
    \/ Rerun

Spec == Init /\ [][Next]_vars

-----------------------------------------------------------------------------
(* Vocabulary of the properties, read off the input document alone *)

\* The run has finished its scan without an exception.
ScanDone == pc \in {"make_toc", "generate_md", "exit"} /\ is_valid /\ file # <<>>

\* A line of whitespace only: its strip() is empty.
IsBlank(line) == \A i \in DOMAIN line : line[i] \in Whitespace

\* The index of the first line of lines, from index i on, that is blank
\* (blank = TRUE) or not blank (blank = FALSE); Len(lines) + 1 when there
\* is none.
RECURSIVE FirstLine(_, _, _)
FirstLine(lines, i, blank) ==
    IF i > Len(lines) THEN Len(lines) + 1
    ELSE IF IsBlank(lines[i]) = blank THEN i
    ELSE FirstLine(lines, i + 1, blank)

\* The index in lines of the first line the body scanner is given: the
\* first non-blank line or, when that line is the marker, the first blank
\* line after it; Len(lines) + 1 when the scanner is given nothing.
ScanFrom(lines) ==
    LET first == FirstLine(lines, 1, FALSE)
    IN  IF first > Len(lines) THEN Len(lines) + 1
        ELSE IF Strip(lines[first]) # toc_marker THEN first
        ELSE FirstLine(lines, first + 1, TRUE)

\* A well-formed header line: it starts with "#" and head_regex matches it.
IsHeader(line) == StartsWith(line, <<"#">>) /\ HeadSearch(line).ok

\* A line of "#" characters followed by nothing but whitespace.
IsHashesOnly(line) ==
    StartsWith(line, <<"#">>) /\ Strip(DropWhileIn(line, {"#"})) = <<>>

\* A line the scanner takes for an anchor tag.
IsAnchorLine(line) == StartsWith(line, <<"<", "a">>)

\* A fence line as the program reads it, and as the specification defines it
\* (the line with its leading whitespace removed starts with the marker).
IsFence(line) == StartsWith(line, Fence)
IsSpecFence(line) == StartsWith(DropWhileIn(line, Whitespace), Fence)

\* Line i of lines lies inside a fenced block that opens at or after from:
\* an odd number of fence lines precede it.
InFence(lines, from, i) ==
    Cardinality({j \in from..(i - 1) : IsFence(lines[j])}) % 2 = 1
InSpecFence(lines, from, i) ==
    Cardinality({j \in from..(i - 1) : IsSpecFence(lines[j])}) % 2 = 1

\* The indices, in increasing order, of the header lines of lines from index
\* from on that lie outside fenced blocks.
HeaderIndices(lines, from) ==
    LET idx == {i \in from..Len(lines) :
                   IsHeader(lines[i]) /\ ~IsFence(lines[i]) /\ ~InFence(lines, from, i)}
    IN  [k \in 1..Cardinality(idx) |->
            CHOOSE i \in idx : Cardinality({j \in idx : j < i}) = k - 1]

\* toc_info holds one entry per index of hs, in that order, each with the
\* level and title of its header line, and toc is the marker line followed
\* by one line per entry.
TocFollows(hs) ==
    /\ Len(toc_info) = Len(hs)
    /\ \A k \in DOMAIN hs :
          /\ toc_src[k].line_num = hs[k]
          /\ toc_info[k][1] = HeadSearch(file[hs[k]]).hashes - 1
          /\ toc_info[k][2] = HeadSearch(file[hs[k]]).name
    /\ pc = "exit" =>
          SplitLines(toc) = <<toc_marker \o <<"\n">> >>
                               \o [k \in DOMAIN toc_info |-> EntryLine(toc_info[k])]

-----------------------------------------------------------------------------
(* C1 *)

\* C1: within one scan, no two TOC entries whose anchors were derived from
\* the header text (no explicit anchor tag) carry the same anchor.
C1_AutoAnchorsDistinct ==
    \A i, j \in DOMAIN toc_info :
        (i # j /\ toc_src[i].keyword_line = None /\ toc_src[j].keyword_line = None)
            => toc_info[i][3] # toc_info[j][3]

-----------------------------------------------------------------------------
(* C2 *)

\* C2 as stated: a document without anchor-tag lines and with N well-formed
\* header lines outside fenced code blocks ends its scan with exactly N TOC
\* entries, in document order, rendered as the marker line and one line per
\* entry.
C2_Original_EveryHeaderOfDocument ==
    (ScanDone /\ \A i \in DOMAIN file : ~IsAnchorLine(file[i]))
        => TocFollows(HeaderIndices(file, 1))

\* C2 amended: the N header lines are counted among the lines the body
\* scanner is given, those left once the leading blank lines and an old TOC
\* block (the marker line and what follows it up to the first blank line)
\* have been discarded.
C2_EveryHeaderScanned ==
    (ScanDone /\ \A i \in DOMAIN file : ~IsAnchorLine(file[i]))
        => TocFollows(HeaderIndices(file, ScanFrom(file)))

\* C2 witness: a finished first run over a document without anchor-tag
\* lines whose first line was discarded before the scan and whose two
\* headers are both in the TOC.
C2_Witness ==
    /\ pc = "exit" /\ run = 1 /\ written
    /\ \A i \in DOMAIN file : ~IsAnchorLine(file[i])
    /\ ScanFrom(file) > 1
    /\ Len(toc_info) = 2

-----------------------------------------------------------------------------
(* C3 *)

\* C3: a line that starts with "#" and lies between an opening fence line
\* and its closing fence line (fences as the specification defines them)
\* never creates a TOC entry, and so never has an anchor line put before it.
C3_NoEntryInsideFence ==
    \A k \in DOMAIN toc_src :
        ~InSpecFence(file, ScanFrom(file), toc_src[k].line_num)

-----------------------------------------------------------------------------
(* C4 *)

\* The old TOC block of a document that opens with the marker: its lines
\* before the first blank line.
OldTocBlock(lines) == SubSeq(lines, 1, ScanFrom(lines) - 1)

\* C4: run on its own output, the tool discards the old TOC block and
\* writes a TOC block equal to it, and the scan starts after the old block.
C4_RerunKeepsToc ==
    (run >= 2 /\ pc = "exit")
        => /\ SplitLines(toc) = OldTocBlock(file)
           /\ \A k \in DOMAIN toc_src : toc_src[k].line_num >= ScanFrom(file)
           /\ Len(SplitLines(fs[output_file].content)) >= Len(SplitLines(toc))
           /\ SubSeq(SplitLines(fs[output_file].content), 1, Len(SplitLines(toc)))
                 = SplitLines(toc)

-----------------------------------------------------------------------------
(* C5 *)

\* Among the first i TOC entries, those without explicit anchor whose
\* candidate is c.
AutoEntries(c, i) ==
    {j \in 1..i : toc_src[j].keyword_line = None /\ LinkCandidate(toc_info[j][2]) = c}

\* C5: the k-th header without explicit anchor whose candidate is c gets
\* the anchor c when k = 1 and c_(k-1) when k >= 2, and header_dict[c]
\* counts those headers.
C5_SuffixIsPriorCount ==
    /\ \A i \in DOMAIN toc_info :
          toc_src[i].keyword_line = None =>
              LET c == LinkCandidate(toc_info[i][2])
                  k == Cardinality(AutoEntries(c, i))
              IN  toc_info[i][3] = IF k = 1 THEN c ELSE c \o <<"_">> \o Str(k - 1)
    /\ \A c \in DOMAIN header_dict :
          header_dict[c] = Cardinality(AutoEntries(c, Len(toc_info)))

\* C5 witness: a third header with the same candidate has been given its
\* anchor.
C5_Witness ==
    \E i \in DOMAIN toc_info :
        /\ toc_src[i].keyword_line = None
        /\ Cardinality(AutoEntries(LinkCandidate(toc_info[i][2]), i)) = 3
        /\ header_dict[LinkCandidate(toc_info[i][2])] = 3

-----------------------------------------------------------------------------
(* C6 *)

\* The number of lines among the first n of lines that equal line.
CountOf(lines, n, line) == Cardinality({j \in 1..n : lines[j] = line})

\* C6: when the line right before a header line (one with a title) is the
\* well-formed tag <a id="X"></a>, the header's TOC entry has anchor X, the
\* tag line stands right before the header line in body, and body holds no
\* tag line with id X that the input did not hold.
C6_ExplicitTagKeptOnce ==
    \A k \in DOMAIN toc_src :
        LET n  == toc_src[k].line_num
            at == toc_src[k].at
        IN  (n >= 2 /\ ~IsHashesOnly(file[n])
                    /\ KeywordSearch(file[n - 1]).ok
                    /\ file[n - 1] = AnchorLine(KeywordSearch(file[n - 1]).id))
            => /\ toc_info[k][3] = KeywordSearch(file[n - 1]).id
               /\ body[at - 1] = file[n - 1]
               /\ CountOf(body, at, file[n - 1]) <= CountOf(file, n, file[n - 1])

-----------------------------------------------------------------------------
(* C7 *)

\* C7: a line of one or more "#" with no header text after them never
\* gets a TOC entry: it raises the malformed-header error, which carries
\* the line's number.
C7_HashesOnlyIsFatal ==
    /\ \A k \in DOMAIN toc_src : ~IsHashesOnly(file[toc_src[k].line_num])
    /\ error.kind = "not a header" => IsHashesOnly(file[error.line_num])

-----------------------------------------------------------------------------
(* C8 *)

\* C8: a run that ended in a fatal error has not opened its output file:
\* nothing was written, and no file stands at the output path unless it is
\* the input file itself.
C8_NoOutputOnError ==
    pc = "raised" =>
        /\ error.kind \in {"not a file", "failed to open", "not a header"}
        /\ ~written
        /\ (output_file # None /\ output_file \in DOMAIN fs) => output_file = input_file

\* C8 witness: a malformed header stopped a scan that had already built
\* TOC entries and body text.
C8_Witness ==
    /\ pc = "raised"
    /\ error.kind = "not a header"
    /\ toc_info # <<>>
    /\ body # <<>>

-----------------------------------------------------------------------------
(* C9 *)

\* C9: when the output path equals the input path and the user answers no,
\* add_toc scans nothing and the input file is not overwritten.
C9_NoMeansNoOp ==
    answered = "no" => pc \in {"main", "add_toc", "exit", "raised"} /\ ~written

-----------------------------------------------------------------------------
(* C10 *)

\* C10: in state FOUND_LINK a line that is neither an anchor tag, nor a
\* header, nor blank is appended to body, and the scanner is in state BODY
\* afterwards.
C10_OrphanReturnsToBody ==
    [][LET r == FRNext(line_gen, file)
       IN  (/\ pc = "process_body"
            /\ body_state = "FOUND_LINK"
            /\ ~r.stop
            /\ ~IsAnchorLine(r.line)
            /\ ~StartsWith(r.line, <<"#">>)
            /\ Strip(r.line) # <<>>)
           => (body' = Append(body, r.line) /\ body_state' = "BODY")]_vars

-----------------------------------------------------------------------------
(* C11 *)

\* The scan of the body has begun (and may have ended, by the end of the
\* input or by a malformed header).
InScan ==
    \/ pc \in {"process_body", "make_toc", "generate_md"}
    \/ pc = "exit" /\ written
    \/ pc = "raised" /\ error.kind = "not a header"

\* The index in the file of the line the reader delivers next.
NextIndex(fr) == IF fr.repeat THEN fr.pos ELSE fr.pos + 1

\* a is b with some of its elements left out.
RECURSIVE IsSubseq(_, _)
IsSubseq(a, b) ==
    IF a = <<>> THEN TRUE
    ELSE IF b = <<>> THEN FALSE
    ELSE IF Head(a) = Head(b) THEN IsSubseq(Tail(a), Tail(b))
    ELSE IsSubseq(a, Tail(b))

\* The pieces of seq from index i on whose index is not in skip
RECURSIVE PiecesNotAt(_, _, _)
PiecesNotAt(seq, i, skip) ==
    IF i > Len(seq) THEN <<>>
    ELSE (IF i \in skip THEN <<>> ELSE <<seq[i]>>) \o PiecesNotAt(seq, i + 1, skip)

\* body without the anchor lines the scan synthesized: what it took from
\* the input.
BodyFromInput ==
    PiecesNotAt(body, 1, {toc_src[k].at - 1 : k \in DOMAIN toc_src})

\* C11: body holds nothing of what precedes the first scanned line (the
\* leading blank lines and, when the first non-blank line is the marker, the
\* marker line and the lines after it up to the first blank line): what body
\* took from the input it took from the lines delivered from that line on,
\* and the first non-blank line, when it is not the marker, is the first
\* line processed.
C11_BodyStartsAfterOldToc ==
    InScan =>
        LET from == ScanFrom(file)
            next == NextIndex(line_gen)
        IN  /\ next >= from
            /\ IsSubseq(BodyFromInput, SubSeq(file, from, next - 1))
            /\ (next > from /\ ~IsAnchorLine(file[from])) =>
                  IF StartsWith(file[from], <<"#">>)
                  THEN \/ error.line_num = from
                       \/ /\ toc_src # <<>>
                          /\ toc_src[1].line_num = from
                          /\ body[2] = file[from]
                  ELSE body # <<>> /\ body[1] = file[from]

\* C11 witness: a finished run over a blank line, the marker and a header
\* line right after it: all three were discarded and body is empty.
C11_Witness ==
    /\ pc = "exit" /\ written
    /\ Len(file) = 3
    /\ Strip(file[1]) = <<>>
    /\ Strip(file[2]) = toc_marker
    /\ IsHeader(file[3])
    /\ body = <<>>

-----------------------------------------------------------------------------
(* header_to_link on its own: one call on a scan that has seen no header *)

\* The characters of the titles: letters, a digit, the space, "-", "/", "_"
\* and other punctuation.
TitleChars == {"A", "b", "1", " ", "-", "/", "_", ".", ",", "!", "#"}

\* The titles: what group 2 of head_regex can be, so without a space at
\* either end.
Titles ==
    {t \in UNION {[1..n -> TitleChars] : n \in 1..MaxTitle} :
        t[1] # " " /\ t[Len(t)] # " "}

\* A Tocsic object whose scan is about to name its first header.
InitLink ==
    /\ fs = (InPath :> [kind |-> "file", readable |-> TRUE, content |-> <<>>])
    /\ args = [filename |-> InPath, output |-> None]
    /\ run = 1
    /\ pc = "header_to_link"
    /\ error = NoError
    /\ input_file = InPath /\ output_file = make_output_name(InPath)
    /\ is_overwrite = FALSE /\ is_valid = TRUE
    /\ toc_info = <<>> /\ toc = toc_marker \o <<"\n">> /\ body = <<>>
    /\ header_dict = <<>> /\ file = <<>>
    /\ line_gen = FileReader /\ body_state = "BODY" /\ link_line = None
    /\ answered = "none" /\ toc_src = <<>> /\ written = FALSE

\* make_toc_entry, lines 188-190, for a header of level 0 with no
\* keyword_line: header_to_link names it.
CallHeaderToLink ==
    /\ pc = "header_to_link"
    /\ \E header_name \in Titles :
         LET named == header_to_link(header_name, header_dict)
         IN  /\ toc_info' = Append(toc_info, <<0, header_name, named.link>>)
             /\ header_dict' = named.header_dict
    /\ toc_src' = Append(toc_src, [line_num |-> 0, keyword_line |-> None, at |-> 0])
    /\ pc' = "named"
    /\ UNCHANGED <<fs, args, run, error, input_file, output_file, is_overwrite,
                   is_valid, toc, body, file, scan, answered, written>>

NextLink == CallHeaderToLink

SpecLink == InitLink /\ [][NextLink]_vars

-----------------------------------------------------------------------------
(* C12 *)

\* re.sub of every maximal run of spaces, hyphens and slashes by "_"
RECURSIVE SubSpaceHyphenSlash(_)
SubSpaceHyphenSlash(s) ==
    IF s = <<>> THEN <<>>
    ELSE IF Head(s) \in {" ", "-", "/"}
         THEN <<"_">> \o SubSpaceHyphenSlash(DropWhileIn(Tail(s), {" ", "-", "/"}))
         ELSE <<Head(s)>> \o SubSpaceHyphenSlash(Tail(s))

\* The reference candidate of a title: lower-case it, replace each maximal
\* run of spaces, hyphens and slashes by one underscore, strip the
\* underscores at both ends, delete what is neither alphanumeric nor "_".
RefCandidate(header) ==
    SelectSeq(StripChars(SubSpaceHyphenSlash(Lower(header)), {"_"}),
              LAMBDA c : IsAlnum(c) \/ c = "_")

\* C12: the anchor header_to_link gives the first header of a scan, which
\* is its candidate, equals the reference candidate of the header's title.
C12_CandidateIsReference ==
    (toc_info # <<>> /\ toc_src[1].keyword_line = None)
        => toc_info[1][3] = RefCandidate(toc_info[1][2])

-----------------------------------------------------------------------------
(* C13 *)

\* C13: for every TOC entry, body holds the entry's header line as the
\* input has it, and the piece of body right before it is the line
\* <a id="A"></a> with A the anchor of the entry.
C13_AnchorLinePrecedesHeader ==
    InScan =>
        \A k \in DOMAIN toc_src :
            LET at == toc_src[k].at
            IN  /\ at \in 2..Len(body)
                /\ body[at] = file[toc_src[k].line_num]
                /\ body[at - 1] = AnchorLine(toc_info[k][3])

\* The output was written for a document with a header under an explicit
\* anchor tag and a header with a generated anchor.
C13_Witness ==
    /\ pc = "exit" /\ written
    /\ Len(toc_src) = 2
    /\ toc_src[1].keyword_line # None
    /\ toc_src[2].keyword_line = None
    /\ toc_info[1][3] # toc_info[2][3]

-----------------------------------------------------------------------------
(* C14 *)

\* The last line starting with "<a" among lines from..n of the input, None
\* when there is none
RECURSIVE LastAnchorLine(_, _)
LastAnchorLine(from, n) ==
    IF n < from THEN None
    ELSE IF IsAnchorLine(file[n]) THEN file[n]
    ELSE LastAnchorLine(from, n - 1)

\* The id that keyword_regex finds in an anchor line, '' when it finds none
IdOf(keyword_line) ==
    LET found == KeywordSearch(keyword_line)
    IN  IF found.ok THEN found.id ELSE <<>>

\* C14: in FOUND_LINK the pending anchor is the last line starting with
\* "<a" that was read, a line starting with "<a" read outside a code block
\* leaves the scanner in FOUND_LINK, and a header reached from FOUND_LINK
\* gets the id of the last such line before it.
C14_LatestAnchorWins ==
    InScan =>
        LET from == ScanFrom(file)
        IN  /\ (pc = "process_body" /\ body_state = "FOUND_LINK")
                  => link_line = LastAnchorLine(from, line_gen.pos)
            /\ (/\ pc = "process_body" /\ body_state # "IN_CODE_BLOCK"
                /\ ~line_gen.repeat /\ line_gen.pos >= from
                /\ IsAnchorLine(file[line_gen.pos]))
                  => body_state = "FOUND_LINK"
            /\ \A k \in DOMAIN toc_src :
                  toc_src[k].keyword_line # None =>
                      /\ toc_src[k].keyword_line
                            = LastAnchorLine(from, toc_src[k].line_num - 1)
                      /\ toc_info[k][3] = IdOf(toc_src[k].keyword_line)

\* Two anchor tags with different ids and then a header: the header has the
\* id of the second.
C14_Witness ==
    /\ pc = "exit" /\ written
    /\ file = <<LTag, LTagY, LSetup>>
    /\ toc_info = <<<<0, <<"S", "e", "t", "u", "p">>, <<"y">>>>>>

-----------------------------------------------------------------------------
(* C15 *)

\* C15: line_num is the number of lines taken from the file, the replay
\* after back() returns the last line again without counting it, and the
\* line number of a header, well-formed or not, is the position of its line
\* in the input, the skipped blank lines and old TOC lines included.
C15_LineNumIsPosition ==
    (pc \notin {"main", "add_toc"}) =>
        /\ line_gen.line_num = line_gen.pos
        /\ line_gen.pos >= 1 =>
              /\ line_gen.pos <= Len(file)
              /\ line_gen.last_line = file[line_gen.pos]
        /\ line_gen.repeat =>
              LET r == FRNext(line_gen, file)
              IN  /\ ~r.stop /\ r.line = file[line_gen.pos]
                  /\ r.fr.line_num = line_gen.pos /\ ~r.fr.repeat
        /\ \A k \in DOMAIN toc_src :
              LET n == toc_src[k].line_num
                  found == HeadSearch(file[n])
              IN  /\ n \in DOMAIN file
                  /\ StartsWith(file[n], <<"#">>)
                  /\ found.ok /\ found.name = toc_info[k][2]
        /\ error.kind = "not a header" =>
              LET n == error.line_num
              IN  /\ n \in DOMAIN file /\ n = line_gen.pos
                  /\ StartsWith(file[n], <<"#">>)
                  /\ ~HeadSearch(file[n]).ok

\* A malformed header on line 3 of a document whose scan starts after
\* line 1 is reported as line 3.
C15_Witness ==
    /\ pc = "raised" /\ error.kind = "not a header"
    /\ error.line_num = 3
    /\ ScanFrom(file) > 1

-----------------------------------------------------------------------------
(* C16 *)

\* The number of "#" characters a line starts with
LeadingHashes(line) == Len(line) - Len(DropWhileIn(line, {"#"}))

\* C16: the level of every TOC entry is the number of leading "#" of its
\* header line minus one, and the entry's line of the rendered TOC starts
\* with four spaces per level and then "1. ".
C16_LevelIsHashCountMinusOne ==
    InScan =>
        \A k \in DOMAIN toc_src :
            LET level == LeadingHashes(file[toc_src[k].line_num]) - 1
            IN  /\ toc_info[k][1] = level
                /\ (pc \in {"generate_md", "exit"}) =>
                      StartsWith(SplitLines(toc)[k + 1],
                                 Indent(level) \o <<"1", ".", " ">>)

-----------------------------------------------------------------------------
(* C17 *)

\* C17: every step taken in IN_CODE_BLOCK while the input has a line left
\* appends that line to body as it is, leaves toc_info, header_dict and
\* the pending anchor alone, and leaves the state IN_CODE_BLOCK unless the
\* line starts with three backticks, when the state becomes BODY.
C17_CodeBlockFrame ==
    [][(/\ pc = "process_body"
        /\ body_state = "IN_CODE_BLOCK"
        /\ ~FRNext(line_gen, file).stop)
          => LET line == FRNext(line_gen, file).line
             IN  /\ body' = Append(body, line)
                 /\ UNCHANGED <<toc_info, header_dict, link_line>>
                 /\ body_state' = IF IsFence(line) THEN "BODY" ELSE "IN_CODE_BLOCK"]_vars

\* A header line between two fence lines was read: the three lines are in
\* body, no TOC entry was made, and the scanner is back in BODY.
C17_Witness ==
    /\ pc = "process_body" /\ body_state = "BODY"
    /\ file = <<LFence, LSetup, LFence>>
    /\ line_gen.pos = 3
    /\ body = file
    /\ toc_info = <<>> /\ header_dict = <<>>

-----------------------------------------------------------------------------
(* C18 *)

\* C18: when the scan has ended without error, body holds every line the
\* scanner was given, in the order of the input.
C18_NoLineLost ==
    (InScan /\ pc \in {"make_toc", "generate_md", "exit"})
        => IsSubseq(SubSeq(file, ScanFrom(file), Len(file)), body)

-----------------------------------------------------------------------------
(* C19 *)

\* C19: the tool run on a file that the tool wrote writes a file with the
\* same content.
C19_OutputIsFixedPoint ==
    (run >= 2 /\ pc = "exit" /\ written)
        => fs[output_file].content = fs[input_file].content

====
